---- MODULE Spec2Model ----
(***************************************************************************)
(* Model of scripts/genlist.py: the build-time generator that collects     *)
(* every MPIX_REGISTER_<category>(<id>, ...) line of the input files and   *)
(* prints one MPIX_LIST_<category> macro per category.                     *)
(*                                                                         *)
(* Text is modelled character by character: a string is a sequence of      *)
(* one-character strings, a file is a sequence of lines (each ending with  *)
(* its newline, as Python's line iteration yields them), standard output   *)
(* is the sequence of lines print() has written.                           *)
(***************************************************************************)
EXTENDS Naturals, Sequences, FiniteSets, TLC

VARIABLES
    argv0,      \* sys.argv[0]: the path the script was invoked by
    argv,       \* sys.argv[1:]: one record per path, what open(path) finds there
    symbols,    \* main's dict: category -> list of identifiers
    pc,         \* where the run is: "scan", "read", "emit", "done", "aborted"
    path,       \* index in argv of main's for loop
    lineno,     \* lines of the open file the for loop of scan_file has consumed
    open,       \* indices in argv of the files currently open
    opened,     \* history: indices in argv in the order open() succeeded on them
    events,     \* history: the (category, remainder) pairs handed to add_match
    stdout,     \* the lines printed so far
    err,        \* the exception that ended the run, if any
    todo,       \* generate_list: the sorted categories not yet printed
    prev        \* history: how the previous run of the tool on these files ended

vars ==
    <<argv0, argv, symbols, pc, path, lineno, open, opened, events, stdout, err,
      todo, prev>>

-----------------------------------------------------------------------------
(* Bounds of the model. *)

\* Most paths on one command line.
MaxFiles == 2

\* Most lines in all the input files of one command line together.
MaxLines == 3

\* Most characters after the fixed start of a generated line (SpecLine).
MaxTail == 4

-----------------------------------------------------------------------------
(* Characters. *)

\* The characters the model uses, in code point order (Python compares
\* strings code point by code point).
CodePoints ==
    <<"\t", "\n", " ", "(", ")", ",", "/", "1", "=", "F", "O", "P", "_",
      "a", "b", "f", "m", "o", "p", "t", "x">>

Ord(c) == CHOOSE i \in 1..Len(CodePoints) : CodePoints[i] = c

\* re's \w on str: letters, digits and the underscore.
WordChars ==
    {"A", "B", "C", "D", "E", "F", "G", "H", "I", "J", "K", "L", "M", "N", "O",
     "P", "Q", "R", "S", "T", "U", "V", "W", "X", "Y", "Z",
     "a", "b", "c", "d", "e", "f", "g", "h", "i", "j", "k", "l", "m", "n", "o",
     "p", "q", "r", "s", "t", "u", "v", "w", "x", "y", "z",
     "0", "1", "2", "3", "4", "5", "6", "7", "8", "9", "_"}

IsWord(c) == c \in WordChars

\* re's \s on str.
IsSpace(c) == c \in {" ", "\t", "\n"}

UpperCase ==
    <<"A", "B", "C", "D", "E", "F", "G", "H", "I", "J", "K", "L", "M", "N", "O",
      "P", "Q", "R", "S", "T", "U", "V", "W", "X", "Y", "Z">>

LowerCase ==
    <<"a", "b", "c", "d", "e", "f", "g", "h", "i", "j", "k", "l", "m", "n", "o",
      "p", "q", "r", "s", "t", "u", "v", "w", "x", "y", "z">>

\* str.lower(), one character.
LowerChar(c) ==
    IF \E i \in 1..Len(UpperCase) : UpperCase[i] = c
    THEN LowerCase[CHOOSE i \in 1..Len(UpperCase) : UpperCase[i] = c]
    ELSE c

\* str.lower().
Lower(s) == [i \in 1..Len(s) |-> LowerChar(s[i])]

\* Python's < on str: the first differing code point decides, a proper
\* prefix is smaller.
StrLess(s, t) ==
    \E i \in 1..(Len(t)) :
        /\ \A k \in 1..(i - 1) : k <= Len(s) /\ s[k] = t[k]
        /\ \/ i = Len(s) + 1
           \/ i <= Len(s) /\ Ord(s[i]) < Ord(t[i])

-----------------------------------------------------------------------------
(* The two regular expressions. *)

\* The literal the pattern of scan_file starts with.
Marker == <<"M", "P", "I", "X", "_", "R", "E", "G", "I", "S", "T", "E", "R", "_">>

\* How many consecutive word characters s has from position i on: what a
\* greedy \w* consumes there.
RECURSIVE WordRun(_, _)
WordRun(s, i) ==
    IF i <= Len(s) /\ IsWord(s[i]) THEN 1 + WordRun(s, i + 1) ELSE 0

\* What a greedy \s* consumes from position i on.
RECURSIVE SpaceRun(_, _)
SpaceRun(s, i) ==
    IF i <= Len(s) /\ IsSpace(s[i]) THEN 1 + SpaceRun(s, i + 1) ELSE 0

\* As MarkerMatch, had scan_file called search() instead of match(): the
\* leftmost occurrence of the pattern anywhere in the line.
MarkerMatch_Search(line) ==
    LET Hit(k) == /\ k + Len(Marker) <= Len(line)
                  /\ SubSeq(line, k + 1, k + Len(Marker)) = Marker
                  /\ WordRun(line, k + Len(Marker) + 1) >= 1
        hit == \E k \in 0..Len(line) : Hit(k)
        k0 == CHOOSE k \in 0..Len(line) : Hit(k) /\ \A j \in 0..(k - 1) : ~Hit(j)
        n == WordRun(line, k0 + Len(Marker) + 1)
    IN  [matched |-> hit,
         group1 |-> IF hit THEN SubSeq(line, k0 + Len(Marker) + 1, k0 + Len(Marker) + n)
                    ELSE <<>>,
         end |-> IF hit THEN k0 + Len(Marker) + n ELSE 0]

\* re.compile('MPIX_REGISTER_(\w+)').match(line): anchored at the start of
\* the line; group 1 is the greedy run of word characters, end the index of
\* the last character matched.
MarkerMatch(line) ==
    LET n == WordRun(line, Len(Marker) + 1)
        hit == /\ Len(line) >= Len(Marker)
               /\ SubSeq(line, 1, Len(Marker)) = Marker
               /\ n >= 1
    IN  [matched |-> hit,
         group1 |-> IF hit THEN SubSeq(line, Len(Marker) + 1, Len(Marker) + n) ELSE <<>>,
         end |-> IF hit THEN Len(Marker) + n ELSE 0]

\* As ArgMatch, had the pattern no \s* after the identifier.
ArgMatch_Strict(line) ==
    LET a == 2 + SpaceRun(line, 2)
        n == WordRun(line, a)
        c == a + n
        hit == /\ Len(line) >= 1
               /\ line[1] = "("
               /\ n >= 1
               /\ c <= Len(line)
               /\ line[c] \in {",", ")"}
    IN  [matched |-> hit,
         group1 |-> IF hit THEN SubSeq(line, a, a + n - 1) ELSE <<>>]

\* re.compile('\(\s*(\w+)\s*[,\)]').match(line): anchored at the start of
\* the remainder. The classes \s, \w and [,)] are disjoint, so the greedy
\* scan is the only way the pattern can match.
ArgMatch(line) ==
    LET a == 2 + SpaceRun(line, 2)
        n == WordRun(line, a)
        c == a + n + SpaceRun(line, a + n)
        hit == /\ Len(line) >= 1
               /\ line[1] = "("
               /\ n >= 1
               /\ c <= Len(line)
               /\ line[c] \in {",", ")"}
    IN  [matched |-> hit,
         group1 |-> IF hit THEN SubSeq(line, a, a + n - 1) ELSE <<>>]

-----------------------------------------------------------------------------
(* add_match. *)

WarningText ==
    <<"-", "-", " ", "W", "a", "r", "n", "i", "n", "g", ":", " ", "e", "x", "p",
      "e", "c", "t", "e", "d", " ", "\"", "(", "<", "i", "d", ">", ")", "\"", " ",
      "o", "r", " ", "\"", "(", "<", "i", "d", ">", ",", " ", ".", ".", ".", "\"",
      ",", " ", "n", "o", "t", " ">>

NoError == [kind |-> "none", msg |-> <<>>]

\* The f-string of the exception add_match raises.
Warning(category, line) == [kind |-> "Exception", msg |-> WarningText \o line]

\* The dict after `if category not in symbols: symbols[category] = []`.
WithCategory(syms, category) ==
    IF category \in DOMAIN syms THEN syms ELSE syms @@ (category :> <<>>)

\* As Append1, had add_match skipped an identifier the list already holds.
Append1_Unique(list, id) ==
    IF \E i \in 1..Len(list) : list[i] = id THEN list ELSE Append(list, id)

\* symbols[category].append(id)
Append1(list, id) == Append(list, id)

\* As add_match, had it only warned about a malformed line and gone on.
add_match_Skip(syms, category, line) ==
    LET s1 == WithCategory(syms, category)
        m == ArgMatch(line)
    IN  IF ~m.matched
        THEN [symbols |-> s1, err |-> NoError]
        ELSE [symbols |-> [s1 EXCEPT ![category] = Append(@, m.group1)],
              err |-> NoError]

\* add_match(symbols, category, line): the dict it leaves and the exception
\* it raises, if any.
add_match(syms, category, line) ==
    LET s1 == WithCategory(syms, category)
        m == ArgMatch(line)
    IN  IF ~m.matched
        THEN [symbols |-> s1, err |-> Warning(category, line)]
        ELSE [symbols |-> [s1 EXCEPT ![category] = Append1(@, m.group1)],
              err |-> NoError]

-----------------------------------------------------------------------------
(* generate_list. *)

\* sorted(symbols.keys())
RECURSIVE Sorted(_)
Sorted(S) ==
    IF S = {} THEN <<>>
    ELSE LET m == CHOOSE x \in S : \A y \in S \ {x} : StrLess(x, y)
         IN  <<m>> \o Sorted(S \ {m})

\* As CategoryOrder, had generate_list sorted the keys in descending order.
CategoryOrder_Descending(syms) ==
    LET up == Sorted(DOMAIN syms)
    IN  [k \in 1..Len(up) |-> up[Len(up) + 1 - k]]

\* The categories in the order generate_list visits them.
CategoryOrder(syms) == Sorted(DOMAIN syms)

\* As HeaderLine, had the header also carried something that differs from
\* one run to the next (a time stamp, a process id).
HeaderLine_Stamped(a0) ==
    <<"/", "*", " ", "G", "e", "n", "e", "r", "a", "t", "e", "d", " ", "w", "i",
      "t", "h", " ">> \o a0 \o (IF prev.count = 0 THEN <<" ", "0">> ELSE <<" ", "1">>)
        \o <<" ", "*", "/">>

\* f'/* Generated with {sys.argv[0]} */'
HeaderLine(a0) ==
    <<"/", "*", " ", "G", "e", "n", "e", "r", "a", "t", "e", "d", " ", "w", "i",
      "t", "h", " ">> \o a0 \o <<" ", "*", "/">>

\* f'#define MPIX_LIST_{category} \\'
DefineLine(category) ==
    <<"#", "d", "e", "f", "i", "n", "e", " ", "M", "P", "I", "X", "_", "L", "I",
      "S", "T", "_">> \o category \o <<" ", "\\">>

\* The category as it appears in the generated symbol name.
NameCategory(category) == Lower(category)

\* f'\t&mpix_{category.lower()}_{symbol}, \\'
SymbolLine(category, symbol) ==
    <<"\t", "&", "m", "p", "i", "x", "_">> \o NameCategory(category) \o <<"_">>
        \o symbol \o <<",", " ", "\\">>

\* As NullLine, had the sentinel line kept the continuation marker.
NullLine_Continued == <<"\t", "N", "U", "L", "L", ",", " ", "\\">>

\* f'\tNULL'
NullLine == <<"\t", "N", "U", "L", "L">>

\* The lines the body of generate_list's outer loop prints for one category.
Block(syms, category) ==
    <<<<>>, DefineLine(category)>>
        \o [k \in 1..Len(syms[category]) |-> SymbolLine(category, syms[category][k])]
        \o <<NullLine>>

-----------------------------------------------------------------------------
(* The inputs. *)

\* The paths the script may be invoked by.
Argv0s ==
    {<<"g", "e", "n", "l", "i", "s", "t", ".", "p", "y">>,
     <<".", "/", "g", "e", "n", "l", "i", "s", "t", ".", "p", "y">>}

\* MPIX_REGISTER_OP(a)
LineOpA == Marker \o <<"O", "P", "(", "a", ")", "\n">>

\* MPIX_REGISTER_OP( b, 1)
LineOpB == Marker \o <<"O", "P", "(", " ", "b", ",", " ", "1", ")", "\n">>

\* MPIX_REGISTER_Fmt(a)
LineFmtA == Marker \o <<"F", "m", "t", "(", "a", ")", "\n">>

\* MPIX_REGISTER_Fmt a)     (no opening parenthesis)
LineBad == Marker \o <<"F", "m", "t", " ", "a", ")", "\n">>

\* An indented registration: the marker is not at column 0.
LineIndented == <<" ">> \o Marker \o <<"O", "P", "(", "a", ")", "\n">>

SampleLines == {LineOpA, LineOpB, LineFmtA, LineBad, LineIndented}

\* What open(path) finds: a file that cannot be opened, or its lines.
Unopenable == [exists |-> FALSE, lines |-> <<>>]

File(lines) == [exists |-> TRUE, lines |-> lines]

\* The files of at most n lines.
Files(Lines, n) ==
    {Unopenable} \cup UNION {{File(c) : c \in [1..k -> Lines]} : k \in 0..n}

\* The command lines of at most f paths whose files hold at most n lines
\* together.
RECURSIVE Argvs(_, _, _)
Argvs(Lines, f, n) ==
    IF f = 0 THEN {<<>>}
    ELSE {<<>>} \cup
         UNION {{<<file>> \o rest : rest \in Argvs(Lines, f - 1, n - Len(file.lines))} :
                file \in Files(Lines, n)}

\* No earlier run.
NoPrev == [count |-> 0, argv0 |-> <<>>, pc |-> "none", stdout |-> <<>>]

\* The state at the first statement of main.
Start(a0, av) ==
    /\ argv0 = a0
    /\ argv = av
    /\ symbols = <<>>
    /\ pc = "scan"
    /\ path = 1
    /\ lineno = 0
    /\ open = {}
    /\ opened = <<>>
    /\ events = <<>>
    /\ stdout = <<>>
    /\ err = NoError
    /\ todo = <<>>

\* The path the build invokes the script by.
ScriptPath == <<"g", "e", "n", "l", "i", "s", "t", ".", "p", "y">>

Init ==
    /\ \E av \in Argvs(SampleLines, MaxFiles, MaxLines) : Start(ScriptPath, av)
    /\ prev = NoPrev

-----------------------------------------------------------------------------
(* The steps of a run. *)

\* As ExitWith, had scan_file opened the file without a with block and
\* never closed it.
ExitWith_Leak(files, i) == files

\* Leaving the with block of scan_file, normally or by an exception, closes
\* the file.
ExitWith(files, i) == files \ {i}

\* scan_file: open(path) succeeds.
OpenFile ==
    /\ pc = "scan"
    /\ path <= Len(argv)
    /\ argv[path].exists
    /\ open' = open \cup {path}
    /\ opened' = Append(opened, path)
    /\ lineno' = 0
    /\ pc' = "read"
    /\ UNCHANGED <<argv0, argv, symbols, path, events, stdout, err, todo, prev>>

\* scan_file: open(path) raises; nothing catches it.
OpenFail ==
    /\ pc = "scan"
    /\ path <= Len(argv)
    /\ ~argv[path].exists
    /\ err' = [kind |-> "OSError", msg |-> <<>>]
    /\ pc' = "aborted"
    /\ UNCHANGED <<argv0, argv, symbols, path, lineno, open, opened, events,
                   stdout, todo, prev>>

\* The next line of the open file.
CurrentLine == argv[path].lines[lineno + 1]

\* scan_file: a line the pattern does not match is passed over.
SkipLine ==
    /\ pc = "read"
    /\ lineno < Len(argv[path].lines)
    /\ ~MarkerMatch(CurrentLine).matched
    /\ lineno' = lineno + 1
    /\ UNCHANGED <<argv0, argv, symbols, pc, path, open, opened, events, stdout,
                   err, todo, prev>>

\* What scan_file passes to add_match as its line.
Remainder(line, m) == SubSeq(line, m.end + 1, Len(line))

\* scan_file: a line the pattern matches goes to add_match, which appends.
RegisterLine ==
    /\ pc = "read"
    /\ lineno < Len(argv[path].lines)
    /\ LET m == MarkerMatch(CurrentLine)
           r == add_match(symbols, m.group1, Remainder(CurrentLine, m))
       IN  /\ m.matched
           /\ r.err = NoError
           /\ symbols' = r.symbols
           /\ events' = Append(events, <<m.group1, Remainder(CurrentLine, m)>>)
    /\ lineno' = lineno + 1
    /\ UNCHANGED <<argv0, argv, pc, path, open, opened, stdout, err, todo,
                   prev>>

\* scan_file: a line the pattern matches goes to add_match, which raises;
\* the exception leaves the with block and main.
MalformedLine ==
    /\ pc = "read"
    /\ lineno < Len(argv[path].lines)
    /\ LET m == MarkerMatch(CurrentLine)
           r == add_match(symbols, m.group1, Remainder(CurrentLine, m))
       IN  /\ m.matched
           /\ r.err # NoError
           /\ symbols' = r.symbols
           /\ err' = r.err
           /\ events' = Append(events, <<m.group1, Remainder(CurrentLine, m)>>)
    /\ lineno' = lineno + 1
    /\ open' = ExitWith(open, path)
    /\ pc' = "aborted"
    /\ UNCHANGED <<argv0, argv, path, opened, stdout, todo, prev>>

\* scan_file: reading the next line raises (an I/O or a decoding error).
ReadError ==
    /\ pc = "read"
    /\ err' = [kind |-> "OSError", msg |-> <<>>]
    /\ open' = ExitWith(open, path)
    /\ pc' = "aborted"
    /\ UNCHANGED <<argv0, argv, symbols, path, lineno, opened, events, stdout,
                   todo, prev>>

\* scan_file: the file is exhausted; the with block ends and main goes on
\* to the next path.
CloseFile ==
    /\ pc = "read"
    /\ lineno = Len(argv[path].lines)
    /\ open' = ExitWith(open, path)
    /\ path' = path + 1
    /\ pc' = "scan"
    /\ UNCHANGED <<argv0, argv, symbols, lineno, opened, events, stdout, err,
                   todo, prev>>

\* main: the loop over the paths is over; generate_list prints the header
\* and sorts the categories.
GenerateHeader ==
    /\ pc = "scan"
    /\ path > Len(argv)
    /\ stdout' = Append(stdout, HeaderLine(argv0))
    /\ todo' = CategoryOrder(symbols)
    /\ pc' = "emit"
    /\ UNCHANGED <<argv0, argv, symbols, path, lineno, open, opened, events,
                   err, prev>>

\* generate_list: one turn of the loop over the categories.
GenerateBlock ==
    /\ pc = "emit"
    /\ todo # <<>>
    /\ stdout' = stdout \o Block(symbols, Head(todo))
    /\ todo' = Tail(todo)
    /\ UNCHANGED <<argv0, argv, symbols, pc, path, lineno, open, opened, events,
                   err, prev>>

\* generate_list and main return.
Return ==
    /\ pc = "emit"
    /\ todo = <<>>
    /\ pc' = "done"
    /\ UNCHANGED <<argv0, argv, symbols, path, lineno, open, opened, events,
                   stdout, err, todo, prev>>

Next ==
    \/ OpenFile
    \/ OpenFail
    \/ SkipLine
    \/ RegisterLine
    \/ MalformedLine
    \/ ReadError
    \/ CloseFile
    \/ GenerateHeader
    \/ GenerateBlock
    \/ Return

Spec == Init /\ [][Next]_vars

-----------------------------------------------------------------------------
(* One file of one line, the line drawn from every short text after a      *)
(* fixed start: the runs that decide what the two patterns accept.         *)

TailChars == {"a", "(", ")", ",", " "}

Tails == UNION {[1..k -> TailChars] : k \in 0..MaxTail}

LineStarts ==
    {<<>>,
     Marker,
     Marker \o <<"O">>,
     <<" ">> \o Marker \o <<"O">>,
     <<"x", "=">> \o Marker \o <<"O">>,
     SubSeq(Marker, 1, Len(Marker) - 1)}

GeneratedLines == {s \o t \o <<"\n">> : s \in LineStarts, t \in Tails}

InitLine ==
    /\ \E av \in {<<Unopenable>>} \cup {<<File(<<l>>)>> : l \in GeneratedLines} :
           Start(ScriptPath, av)
    /\ prev = NoPrev

SpecLine == InitLine /\ [][Next]_vars

-----------------------------------------------------------------------------
(* The tool run twice on the same files, as a build does.                  *)

TwiceLines == {LineOpA, LineFmtA, LineBad, LineIndented}

InitTwice ==
    /\ \E a0 \in Argv0s, av \in Argvs(TwiceLines, MaxFiles, MaxLines) : Start(a0, av)
    /\ prev = NoPrev

\* The process has ended; the tool is invoked again on the same paths, by
\* the same or by another path to the script. main starts from an empty
\* dict.
Rerun ==
    /\ pc \in {"done", "aborted"}
    /\ prev.count = 0
    /\ prev' = [count |-> 1, argv0 |-> argv0, pc |-> pc, stdout |-> stdout]
    /\ argv0' \in Argv0s
    /\ argv' = argv
    /\ symbols' = <<>>
    /\ pc' = "scan"
    /\ path' = 1
    /\ lineno' = 0
    /\ open' = {}
    /\ opened' = <<>>
    /\ events' = <<>>
    /\ stdout' = <<>>
    /\ err' = NoError
    /\ todo' = <<>>

NextTwice ==
    \/ OpenFile
    \/ OpenFail
    \/ SkipLine
    \/ RegisterLine
    \/ MalformedLine
    \/ ReadError
    \/ CloseFile
    \/ GenerateHeader
    \/ GenerateBlock
    \/ Return
    \/ Rerun

SpecTwice == InitTwice /\ [][NextTwice]_vars

-----------------------------------------------------------------------------
(* What the properties read off the inputs and the output. They are        *)
(* written from the text of the input and of the output alone, not with    *)
(* the operators of the run above.                                         *)

StartsWith(s, p) == Len(s) >= Len(p) /\ SubSeq(s, 1, Len(p)) = p

EndsWith(s, p) == Len(s) >= Len(p) /\ SubSeq(s, Len(s) - Len(p) + 1, Len(s)) = p

Contains(s, p) == \E i \in 0..(Len(s) - Len(p)) : SubSeq(s, i + 1, i + Len(p)) = p

Range(s) == {s[i] : i \in 1..Len(s)}

\* The lines of the first n files of av, one file after the other.
RECURSIVE LinesOf(_, _)
LinesOf(av, n) == IF n = 0 THEN <<>> ELSE LinesOf(av, n - 1) \o av[n].lines

AllLines == LinesOf(argv, Len(argv))

\* The lines the run has read so far.
LinesRead ==
    IF pc \in {"emit", "done"} THEN AllLines
    ELSE LinesOf(argv, path - 1)
            \o (IF path \in Range(opened) THEN SubSeq(argv[path].lines, 1, lineno) ELSE <<>>)

\* A registration line: the marker at column 0, then a word character.
Detects(line) ==
    /\ Len(line) > Len(Marker)
    /\ \A i \in 1..Len(Marker) : line[i] = Marker[i]
    /\ IsWord(line[Len(Marker) + 1])

\* Where the category tag of a registration line ends: the last character
\* of the longest run of word characters after the marker.
TagEnd(line) ==
    CHOOSE e \in (Len(Marker) + 1)..Len(line) :
        /\ \A i \in (Len(Marker) + 1)..e : IsWord(line[i])
        /\ e = Len(line) \/ ~IsWord(line[e + 1])

Tag(line) == SubSeq(line, Len(Marker) + 1, TagEnd(line))

Rest(line) == SubSeq(line, TagEnd(line) + 1, Len(line))

\* rem is: "(", white space up to a, word characters from a to b, white
\* space up to c, and "," or ")" at c.
ShapeAt(rem, a, b, c) ==
    /\ rem[1] = "("
    /\ 2 <= a /\ a <= b /\ b < c
    /\ \A i \in 2..(a - 1) : IsSpace(rem[i])
    /\ \A i \in a..b : IsWord(rem[i])
    /\ \A i \in (b + 1)..(c - 1) : IsSpace(rem[i])
    /\ rem[c] \in {",", ")"}

HasShape(rem) == \E a, b, c \in 1..Len(rem) : ShapeAt(rem, a, b, c)

\* The identifier of a remainder that has the shape.
ShapeId(rem) ==
    LET w == CHOOSE w \in (1..Len(rem)) \X (1..Len(rem)) :
                 \E c \in 1..Len(rem) : ShapeAt(rem, w[1], w[2], c)
    IN  SubSeq(rem, w[1], w[2])

\* The shape section 4.2 of the specification words: white space up to p,
\* "(" at p, white space up to a, word characters from a to b, and "," or
\* ")" right after b.
WordedShapeAt(rem, p, a, b) ==
    /\ \A i \in 1..(p - 1) : IsSpace(rem[i])
    /\ rem[p] = "("
    /\ p < a /\ a <= b /\ b < Len(rem)
    /\ \A i \in (p + 1)..(a - 1) : IsSpace(rem[i])
    /\ \A i \in a..b : IsWord(rem[i])
    /\ rem[b + 1] \in {",", ")"}

HasWordedShape(rem) == \E p, a, b \in 1..Len(rem) : WordedShapeAt(rem, p, a, b)

Malformed(line) == Detects(line) /\ ~HasShape(Rest(line))

\* The categories the input files tag a line with, in whatever order the
\* files are given.
InputCategories ==
    {Tag(AllLines[i]) : i \in {j \in 1..Len(AllLines) : Detects(AllLines[j])}}

IsTagged(line, c) == Detects(line) /\ Tag(line) = c

\* The identifiers of the registration lines tagged c, in the order of the
\* lines of the files in command-line order.
Registered(c) ==
    LET tagged == SelectSeq(AllLines, LAMBDA l : IsTagged(l, c))
    IN  [k \in 1..Len(tagged) |-> ShapeId(Rest(tagged[k]))]

\* The detection events a sequence of lines gives rise to.
Detections(lines) ==
    LET d == SelectSeq(lines, Detects)
    IN  [k \in 1..Len(d) |-> <<Tag(d[k]), Rest(d[k])>>]

\* The identifiers of the events tagged c whose remainder has the shape.
Accepted(c) ==
    LET hits == SelectSeq(events, LAMBDA e : e[1] = c /\ HasShape(e[2]))
    IN  [k \in 1..Len(hits) |-> ShapeId(hits[k][2])]

TxtHeader ==
    <<"/", "*", " ", "G", "e", "n", "e", "r", "a", "t", "e", "d", " ", "w", "i",
      "t", "h", " ">>

TxtHeaderEnd == <<" ", "*", "/">>

TxtDefine ==
    <<"#", "d", "e", "f", "i", "n", "e", " ", "M", "P", "I", "X", "_", "L", "I",
      "S", "T", "_">>

TxtContinue == <<" ", "\\">>

TxtSymbol == <<"\t", "&", "m", "p", "i", "x", "_">>

TxtSymbolEnd == <<",", " ", "\\">>

TxtNull == <<"\t", "N", "U", "L", "L">>

IsDefine(l) == StartsWith(l, TxtDefine) /\ EndsWith(l, TxtContinue)

IsSymbol(l) == StartsWith(l, TxtSymbol) /\ EndsWith(l, TxtSymbolEnd)

\* The categories of the macro-definition lines of the output, in order.
BlockCategories ==
    LET d == SelectSeq(stdout, IsDefine)
    IN  [k \in 1..Len(d) |-> SubSeq(d[k], Len(TxtDefine) + 1, Len(d[k]) - Len(TxtContinue))]

HasBlock(c) == \E i \in 1..Len(stdout) : stdout[i] = TxtDefine \o c \o TxtContinue

\* The lines of c's block between its macro-definition line and the first
\* sentinel line after it.
BlockLines(c) ==
    LET i == CHOOSE i \in 1..Len(stdout) : stdout[i] = TxtDefine \o c \o TxtContinue
        j == CHOOSE j \in (i + 1)..Len(stdout) :
                 /\ stdout[j] = TxtNull
                 /\ \A k \in (i + 1)..(j - 1) : stdout[k] # TxtNull
    IN  SubSeq(stdout, i + 1, j - 1)

\* The identifiers c's block lists, in order.
BlockIds(c) ==
    LET b == BlockLines(c)
    IN  [k \in 1..Len(b) |->
            SubSeq(b[k], Len(TxtSymbol) + Len(c) + 2, Len(b[k]) - Len(TxtSymbolEnd))]

-----------------------------------------------------------------------------
(* The properties. *)

\* C1: after a successful run, the identifiers listed in the block of every
\* category C are exactly the identifiers of the registration lines tagged C,
\* one per line, in the order of the lines of the input files taken in
\* command-line order: nothing dropped, nothing deduplicated, nothing
\* reordered.
C1_OrderKept ==
    pc = "done" =>
        \A c \in InputCategories : HasBlock(c) /\ BlockIds(c) = Registered(c)

\* A successful run over two non-empty files in which one category holds
\* three registrations, the first and the third of the same identifier.
C1_Witness ==
    /\ pc = "done"
    /\ Len(argv) = 2
    /\ argv[1].lines # <<>> /\ argv[2].lines # <<>>
    /\ \E c \in InputCategories :
          /\ Len(Registered(c)) = 3
          /\ Registered(c)[1] = Registered(c)[3]
          /\ Registered(c)[1] # Registered(c)[2]
          /\ BlockIds(c) = Registered(c)

\* C2: after a successful run the macro-definition lines of the output name
\* each category tagged in the inputs exactly once, and no other, in strict
\* ascending order of the category names; the set of tagged categories does
\* not depend on the order of the files, so neither does the sequence.
C2_SortedBlocks ==
    pc = "done" =>
        /\ \A i, j \in 1..Len(BlockCategories) :
              i # j => BlockCategories[i] # BlockCategories[j]
        /\ \A k \in 1..(Len(BlockCategories) - 1) :
              StrLess(BlockCategories[k], BlockCategories[k + 1])
        /\ Range(BlockCategories) = InputCategories

\* A successful run whose first registration line is tagged with the
\* category of the second block.
C2_Witness ==
    /\ pc = "done"
    /\ Len(BlockCategories) = 2
    /\ Len(events) >= 2
    /\ events[1][1] = BlockCategories[2]
    /\ events[Len(events)][1] = BlockCategories[1]

\* C7: a successful output is the header line and then, per category, a
\* blank line, the line "#define MPIX_LIST_<category> \", one line
\* "<tab>&mpix_<lowercased category>_<symbol>, \" per stored symbol in the
\* stored order, and one line "<tab>NULL", which ends the block and carries
\* no continuation marker.
C7_BlockLayout ==
    pc = "done" =>
        LET n == Len(stdout)
        IN  /\ n >= 1
            /\ stdout[1] = TxtHeader \o argv0 \o TxtHeaderEnd
            /\ \A i \in 2..n : ~StartsWith(stdout[i], <<"/", "*">>)
            /\ \A i \in 2..n :
                  \/ /\ stdout[i] = <<>>
                     /\ i < n /\ IsDefine(stdout[i + 1])
                  \/ /\ IsDefine(stdout[i])
                     /\ stdout[i - 1] = <<>>
                     /\ i < n /\ (IsSymbol(stdout[i + 1]) \/ stdout[i + 1] = TxtNull)
                  \/ /\ IsSymbol(stdout[i])
                     /\ IsDefine(stdout[i - 1]) \/ IsSymbol(stdout[i - 1])
                     /\ i < n /\ (IsSymbol(stdout[i + 1]) \/ stdout[i + 1] = TxtNull)
                  \/ /\ stdout[i] = TxtNull
                     /\ IsDefine(stdout[i - 1]) \/ IsSymbol(stdout[i - 1])
                     /\ i = n \/ stdout[i + 1] = <<>>
            /\ Len(BlockCategories) = Cardinality(DOMAIN symbols)
            /\ \A c \in DOMAIN symbols :
                  \E i \in 2..n :
                      /\ stdout[i] = TxtDefine \o c \o TxtContinue
                      /\ i + Len(symbols[c]) + 1 <= n
                      /\ \A k \in 1..Len(symbols[c]) :
                            stdout[i + k] =
                                TxtSymbol \o Lower(c) \o <<"_">> \o symbols[c][k]
                                    \o TxtSymbolEnd
                      /\ stdout[i + Len(symbols[c]) + 1] = TxtNull

\* A successful output of two blocks, one of two symbols, with a category
\* that has upper-case letters.
C7_Witness ==
    /\ pc = "done"
    /\ Cardinality(DOMAIN symbols) = 2
    /\ \E c \in DOMAIN symbols : Len(symbols[c]) = 2 /\ Lower(c) # c
    /\ \E c \in DOMAIN symbols : Len(symbols[c]) = 1
    /\ stdout[Len(stdout)] = TxtNull

\* C3: nothing is printed unless every path was opened and every line of
\* every file was read without a malformed registration line; a malformed
\* line or a path that cannot be opened ends the run there, with standard
\* output empty, no line read after the malformed one, no file opened after
\* the failing one, and no further step.
C3_FailFast ==
    /\ pc = "aborted" => stdout = <<>> /\ ~ENABLED Next
    /\ stdout # <<>> =>
          /\ pc \in {"emit", "done"}
          /\ err = NoError
          /\ \A f \in 1..Len(argv) : argv[f].exists
          /\ \A i \in 1..Len(AllLines) : ~Malformed(AllLines[i])
          /\ Len(opened) = Len(argv)
    /\ \A i \in 1..(Len(LinesRead) - 1) : ~Malformed(LinesRead[i])
    /\ (LinesRead # <<>> /\ Malformed(LinesRead[Len(LinesRead)])) =>
          pc = "aborted" /\ err.kind = "Exception"
    /\ \A f \in 1..Len(argv) :
          ~argv[f].exists =>
              /\ path <= f
              /\ \A k \in 1..Len(opened) : opened[k] < f
              /\ path = f => pc \in {"scan", "aborted"}

\* A run that a malformed line ends after a well-formed registration was
\* stored, in the first of two files.
C3_Witness ==
    /\ pc = "aborted"
    /\ err.kind = "Exception"
    /\ symbols # <<>>
    /\ \E c \in DOMAIN symbols : symbols[c] # <<>>
    /\ path = 1 /\ Len(argv) = 2
    /\ argv[2].exists /\ argv[2].lines # <<>>
    /\ stdout = <<>>

\* C4: when a malformed registration line ends the run, the message of the
\* exception holds the category tag of the line and the whole text of the
\* line.
C4_Diagnostic ==
    (pc = "aborted" /\ err.kind = "Exception") =>
        /\ Contains(err.msg, argv[path].lines[lineno])
        /\ Contains(err.msg, Tag(argv[path].lines[lineno]))

\* C9: in every state, every category of the symbol table holds at least
\* one symbol.
C9_NeverEmpty == \A c \in DOMAIN symbols : Len(symbols[c]) >= 1

\* C10: the files are opened in command-line order, at most one is open at
\* a time, and a file is open only while its lines are being read: it is
\* closed when the scan of it ends, also when a malformed line or a read
\* failure ends it, so before the next file is opened and before the run
\* ends.
C10_OneOpenFile ==
    /\ Cardinality(open) <= 1
    /\ \A k \in 1..Len(opened) : opened[k] = k
    /\ pc = "read" => open = {path} /\ opened # <<>> /\ opened[Len(opened)] = path
    /\ pc # "read" => open = {}

\* The scan of the second of two files cut short by a malformed line.
C10_Witness ==
    /\ pc = "aborted"
    /\ err.kind = "Exception"
    /\ opened = <<1, 2>>
    /\ lineno < Len(argv[2].lines)
    /\ open = {}

\* C5: add_match accepts a remainder if and only if it is "(" at its very
\* start, optional white space, an identifier of word characters, optional
\* white space, and then "," or ")"; each category then holds exactly the
\* identifiers of its accepted remainders, in order, and any other
\* remainder ends the run with the malformed-input exception.
C5_Shape ==
    /\ \A k \in 1..Len(events) :
          HasShape(events[k][2]) <=> ~(k = Len(events) /\ err.kind = "Exception")
    /\ err.kind = "Exception" => events # <<>> /\ pc = "aborted"
    /\ \A c \in DOMAIN symbols : symbols[c] = Accepted(c)

\* A remainder with white space between the identifier and the closing
\* parenthesis, accepted.
C5_Witness ==
    /\ Len(events) = 1
    /\ events[1][2] = <<"(", "a", " ", ")", "\n">>
    /\ err = NoError
    /\ symbols = (events[1][1] :> <<<<"a">>>>)

\* C5 as the specification words it: the remainder is accepted if and only
\* if it is optional white space, "(", optional white space, an identifier,
\* and "," or ")" right after the identifier.
C5_AsWorded ==
    \A k \in 1..Len(events) :
        HasWordedShape(events[k][2]) <=> ~(k = Len(events) /\ err.kind = "Exception")

\* C6: the detection events of a run are, in order, one per line read that
\* starts at column 0 with the marker followed by a word character, each
\* carrying the longest run of word characters after the marker and the
\* rest of the line; a line read that does not start so leaves the symbol
\* table as it was and raises nothing.
C6_Anchored ==
    /\ events = Detections(LinesRead)
    /\ DOMAIN symbols = {events[k][1] : k \in 1..Len(events)}
    /\ err.kind = "Exception" =>
          LinesRead # <<>> /\ Detects(LinesRead[Len(LinesRead)])

\* A line read that holds the marker and a well-formed argument list after
\* a leading blank: no event, no symbol, no error.
C6_Witness ==
    /\ Len(LinesRead) = 1
    /\ StartsWith(LinesRead[1], <<" ">> \o Marker \o <<"O", "(", "a", ")">>)
    /\ events = <<>>
    /\ symbols = <<>>
    /\ err = NoError

====
